---- MODULE Spec2Model ----
(***************************************************************************)
(* flashrom pcidev.c: PCI device resolution (pcidev_init,                  *)
(* flashrom_pci_init), the enumeration context pacc and its teardown, the  *)
(* configuration-space undo log (rpci_write_*, undo_pci_write), the sysfs  *)
(* enable/disable and resource mapping of a flashrom_pci_device.           *)
(*                                                                         *)
(* Integers of the C code wider than a byte are little-endian byte tuples, *)
(* so that every value keeps its width.  Pointers are integers: 0 is NULL, *)
(* -1 is MAP_FAILED, a positive number names the object pointed to.        *)
(***************************************************************************)
EXTENDS Integers, Sequences, FiniteSets, TLC

VARIABLES
    pacc,          \* struct pci_access *pacc: 0 (NULL) or the id of the live context
    uintptr_bits,  \* 8 * sizeof(uintptr_t) of the build: 32 or 64
    pci_dev,       \* the enumerated devices: identity and declared BAR sizes
    resource,      \* content of <sysfs_path>resource<bar> of every device, byte by byte
    cfg,           \* configuration space of every device, byte by byte
    enable_file,   \* content of <sysfs_path>enable of every device
    shutdown_fn,   \* the shutdown registry: a stack of [func, data]
    undo_data,     \* the struct undo_pci_write_data allocated so far
    device,        \* the struct flashrom_pci_device allocated so far
    vma,           \* the mappings mmap has made and munmap has not released
    phase,         \* "run", "drain" (registry being drained) or "done"
    last,          \* the last call: its arguments, result and file accesses
    hist           \* history: contexts allocated and cleaned up, undo calls made

vars == <<pacc, uintptr_bits, pci_dev, resource, cfg, enable_file, shutdown_fn, undo_data,
          device, vma, phase, last, hist>>

---------------------------------------------------------------------------
\* Bounds of the model.

\* number of devices on the bus
NumDev == 2
\* capacity of the shutdown registry
MaxShutdownFn == 4
\* number of calls made before shutdown
MaxCalls == 3

Dev == 1 .. NumDev

---------------------------------------------------------------------------
\* Constants of the PCI headers and of errno, as the code uses them.

PCI_COMMAND == 4
PCI_HEADER_TYPE == 14
PCI_BASE_ADDRESS_0 == 16
PCI_BASE_ADDRESS_1 == 20
PCI_BASE_ADDRESS_2 == 24
PCI_BASE_ADDRESS_3 == 28
PCI_BASE_ADDRESS_4 == 32
PCI_BASE_ADDRESS_5 == 36
PCI_ROM_ADDRESS == 48
PCI_ROM_ADDRESS1 == 56
PCI_HEADER_TYPE_NORMAL == 0
PCI_HEADER_TYPE_BRIDGE == 1
PCI_HEADER_TYPE_CARDBUS == 2
EINVAL == 22
EALREADY == 114
ENOENT == 2
EIO == 5
ENOMEM == 12
EFAULT == 14
MAP_FAILED == -1

\* The registers of configuration space the model keeps: the command register,
\* the header type, BAR 0 to BAR 2 and four bytes of device-specific registers.
Regs == {PCI_COMMAND, PCI_COMMAND + 1, PCI_HEADER_TYPE}
            \cup (PCI_BASE_ADDRESS_0 .. (PCI_BASE_ADDRESS_2 + 3)) \cup (64 .. 67)

---------------------------------------------------------------------------
\* Configuration space access of the enumeration library (little endian).

pci_read_byte(c, reg) == <<c[reg]>>
pci_read_word(c, reg) == <<c[reg], c[reg + 1]>>
pci_read_long(c, reg) == <<c[reg], c[reg + 1], c[reg + 2], c[reg + 3]>>

\* pci_write_byte / pci_write_word / pci_write_long: Len(bytes) is the width
pci_write(c, reg, bytes) ==
    [r \in Regs |-> IF r >= reg /\ r < reg + Len(bytes) THEN bytes[r - reg + 1] ELSE c[r]]

IsZero(bytes) == \A i \in 1 .. Len(bytes) : bytes[i] = 0

Zero64 == <<0, 0, 0, 0, 0, 0, 0, 0>>

---------------------------------------------------------------------------
\* pcidev_readbar: the address a BAR of a device decodes to, as a uintptr_t
\* (eight bytes, the upper four zero on a 32-bit build).

BarType(c, bar) ==
    LET headertype == c[PCI_HEADER_TYPE] % 128
        addr == pci_read_long(c, bar)
        membar_or_iobar == IF addr[1] % 2 = 1 THEN "TYPE_IOBAR" ELSE "TYPE_MEMBAR"
    IN  CASE headertype = PCI_HEADER_TYPE_NORMAL ->
                 (CASE bar \in {PCI_BASE_ADDRESS_0, PCI_BASE_ADDRESS_1, PCI_BASE_ADDRESS_2,
                                PCI_BASE_ADDRESS_3, PCI_BASE_ADDRESS_4, PCI_BASE_ADDRESS_5}
                           -> membar_or_iobar
                    [] bar = PCI_ROM_ADDRESS -> "TYPE_ROMBAR"
                    [] OTHER -> "TYPE_UNKNOWN")
          [] headertype = PCI_HEADER_TYPE_BRIDGE ->
                 (CASE bar \in {PCI_BASE_ADDRESS_0, PCI_BASE_ADDRESS_1} -> membar_or_iobar
                    [] bar = PCI_ROM_ADDRESS1 -> "TYPE_ROMBAR"
                    [] OTHER -> "TYPE_UNKNOWN")
          [] OTHER -> "TYPE_UNKNOWN"

\* a 64-bit address cast to uintptr_t without the test of sizeof(uintptr_t)
pcidev_readbar_truncate(c, bar, bits) ==
    LET lo == pci_read_long(c, bar)
        addr == lo \o <<0, 0, 0, 0>>
        bartype == BarType(c, bar)
        is64 == (lo[1] \div 2) % 4 = 2
        upperaddr == pci_read_long(c, bar + 4)
        merged == IF is64 /\ ~IsZero(upperaddr) THEN lo \o upperaddr ELSE addr
        uintptr(a) == IF bits = 64 THEN a ELSE SubSeq(a, 1, 4) \o <<0, 0, 0, 0>>
    IN  CASE bartype = "TYPE_MEMBAR" -> uintptr([merged EXCEPT ![1] = @ - (@ % 16)])
          [] bartype = "TYPE_IOBAR" -> uintptr([addr EXCEPT ![1] = @ - (@ % 4)])
          [] bartype = "TYPE_ROMBAR" ->
                 uintptr([addr EXCEPT ![1] = 0, ![2] = @ - (@ % 8)])
          [] OTHER -> uintptr(addr)

pcidev_readbar(c, bar, bits) ==
    LET lo == pci_read_long(c, bar)
        addr == lo \o <<0, 0, 0, 0>>
        bartype == BarType(c, bar)
        is64 == (lo[1] \div 2) % 4 = 2
        upperaddr == pci_read_long(c, bar + 4)
        merged == IF is64 /\ ~IsZero(upperaddr) THEN lo \o upperaddr ELSE addr
        uintptr(a) == IF bits = 64 THEN a ELSE SubSeq(a, 1, 4) \o <<0, 0, 0, 0>>
    IN  CASE bartype = "TYPE_MEMBAR" ->
                 IF is64 /\ ~IsZero(upperaddr) /\ bits # 64
                 THEN Zero64
                 ELSE uintptr([merged EXCEPT ![1] = @ - (@ % 16)])
          [] bartype = "TYPE_IOBAR" -> uintptr([addr EXCEPT ![1] = @ - (@ % 4)])
          [] bartype = "TYPE_ROMBAR" ->
                 uintptr([addr EXCEPT ![1] = 0, ![2] = @ - (@ % 8)])
          [] OTHER -> uintptr(addr)

---------------------------------------------------------------------------
\* The devices the enumeration library finds, and the caller's parameters.

\* configuration image of a device: header type, command register, BAR 0, BAR 1
CfgImage(headertype, command, bar0, bar1) ==
    [r \in Regs |->
        CASE r = PCI_HEADER_TYPE -> headertype
          [] r = PCI_COMMAND -> command
          [] r \in PCI_BASE_ADDRESS_0 .. (PCI_BASE_ADDRESS_0 + 3) -> bar0[r - PCI_BASE_ADDRESS_0 + 1]
          [] r \in PCI_BASE_ADDRESS_1 .. (PCI_BASE_ADDRESS_1 + 3) -> bar1[r - PCI_BASE_ADDRESS_1 + 1]
          [] OTHER -> 0]

\* declared sizes of BAR 0..5 (struct pci_dev.size[])
BarSizes == <<8, 8, 4, 0, 0, 0>>

\* what the resources of BAR 0..5 of a device hold before any access
ResourceImage ==
    << <<160, 1, 2, 3, 255, 0, 90, 165>>, <<0, 0, 0, 0, 0, 0, 0, 0>>, <<160, 90, 15, 240>>,
       <<>>, <<>>, <<>> >>

\* kinds of device: 32-bit memory BAR at 0xF0000000; the same identity with BAR 0
\* reading zero; another identity with a 64-bit memory BAR above 4 GiB
DevKinds ==
    << [vendor_id |-> 1, device_id |-> 1, image |-> CfgImage(0, 2, <<0, 0, 0, 240>>, <<0, 0, 0, 0>>)],
       [vendor_id |-> 1, device_id |-> 1, image |-> CfgImage(128, 2, <<0, 0, 0, 0>>, <<0, 0, 0, 0>>)],
       [vendor_id |-> 1, device_id |-> 2, image |-> CfgImage(0, 2, <<4, 0, 0, 240>>, <<1, 0, 0, 0>>)] >>

\* struct pci_dev of device d of kind k: device d sits at 00:1f.(d+1)
PciDev(d, k) ==
    [domain |-> 0, bus |-> 0, dev |-> 31, func |-> d + 1,
     vendor_id |-> k.vendor_id, device_id |-> k.device_id, size |-> BarSizes]

\* whitelists (struct dev_entry[] / struct flashrom_pci_match[]), without the sentinel
Entry(v, d, s) == [vendor_id |-> v, device_id |-> d, status |-> s]
Whitelists ==
    { <<>>, <<Entry(1, 1, "OK")>>, <<Entry(1, 2, "NT")>>,
      <<Entry(1, 2, "NT"), Entry(1, 1, "OK")>> }

\* extract_programmer_param("pci") and what pci_filter_parse_slot makes of it:
\* no parameter, "00:1f.2", "00:1f.3", "00:1e.0", and a string the parser rejects
NoParam == [given |-> FALSE, err |-> FALSE, bus |-> -1, slot |-> -1, func |-> -1]
Slot(b, s, f) == [given |-> TRUE, err |-> FALSE, bus |-> b, slot |-> s, func |-> f]
BadParam == [given |-> TRUE, err |-> TRUE, bus |-> -1, slot |-> -1, func |-> -1]
PciParams == { NoParam, Slot(0, 31, 2), Slot(0, 31, 3), Slot(0, 30, 0), BadParam }

\* pci_filter_match on a filter that pci_filter_init reset and parse_slot filled
pci_filter_match(f, dev) ==
    /\ (f.bus < 0 \/ f.bus = dev.bus)
    /\ (f.slot < 0 \/ f.slot = dev.dev)
    /\ (f.func < 0 \/ f.func = dev.func)

\* pci_get_dev: the device of the context at a given address
pci_get_dev(devs, domain, bus, dev, func) ==
    CHOOSE d \in DOMAIN devs :
        /\ devs[d].domain = domain /\ devs[d].bus = bus
        /\ devs[d].dev = dev /\ devs[d].func = func

---------------------------------------------------------------------------
\* The shutdown registry (register_shutdown, and the drain at shutdown).

register_shutdown(fns, func, data) ==
    IF Len(fns) >= MaxShutdownFn
    THEN [ret |-> 1, fns |-> fns]
    ELSE [ret |-> 0, fns |-> Append(fns, [func |-> func, data |-> data])]

---------------------------------------------------------------------------
\* The enumeration context.

\* a second context allocated over a live one (the check of pacc left out)
pci_init_common_replace(p, fns, h) ==
    LET r == register_shutdown(fns, "pcidev_shutdown", 0)
    IN  [ret |-> r.ret, pacc |-> h.ctx_allocs + 1, fns |-> r.fns,
         hist |-> [h EXCEPT !.ctx_allocs = @ + 1]]

\* a live context silently reused: success, nothing allocated or registered
pci_init_common_reuse(p, fns, h) ==
    IF p # 0
    THEN [ret |-> 0, pacc |-> p, fns |-> fns, hist |-> h]
    ELSE LET r == register_shutdown(fns, "pcidev_shutdown", 0)
         IN  [ret |-> r.ret, pacc |-> h.ctx_allocs + 1, fns |-> r.fns,
              hist |-> [h EXCEPT !.ctx_allocs = @ + 1]]

pci_init_common(p, fns, h) ==
    IF p # 0
    THEN [ret |-> 1, pacc |-> p, fns |-> fns, hist |-> h]
    ELSE LET r == register_shutdown(fns, "pcidev_shutdown", 0)
         IN  [ret |-> r.ret, pacc |-> h.ctx_allocs + 1, fns |-> r.fns,
              hist |-> [h EXCEPT !.ctx_allocs = @ + 1]]

pcidev_shutdown(p, h) ==
    IF p = 0
    THEN [ret |-> 1, pacc |-> p, hist |-> h]
    ELSE [ret |-> 0, pacc |-> 0, hist |-> [h EXCEPT !.ctx_cleanups = @ + 1]]

---------------------------------------------------------------------------
\* Device resolution.

\* for (i = 0; devs[i] is not the sentinel; i++) if (ids equal) break;
RECURSIVE MatchIndex(_, _, _)
MatchIndex(devs, dev, i) ==
    IF i > Len(devs) THEN i
    ELSE IF dev.vendor_id = devs[i].vendor_id /\ dev.device_id = devs[i].device_id THEN i
    ELSE MatchIndex(devs, dev, i + 1)

\* every device that matches filter and whitelist counted, whatever its BAR reads
RECURSIVE pcidev_init_scan_all(_, _, _, _, _, _, _)
pcidev_init_scan_all(devs, bar, filter, pdevs, c, bits, d) ==
    IF d > Len(pdevs) THEN [found |-> 0, found_dev |-> 0]
    ELSE LET rest == pcidev_init_scan_all(devs, bar, filter, pdevs, c, bits, d + 1)
             hit == /\ pci_filter_match(filter, pdevs[d])
                    /\ MatchIndex(devs, pdevs[d], 1) <= Len(devs)
         IN  IF hit
             THEN [found |-> rest.found + 1,
                   found_dev |-> IF rest.found_dev # 0 THEN rest.found_dev ELSE d]
             ELSE rest

\* the loop of pcidev_init over pacc->devices, from device d on
RECURSIVE pcidev_init_scan(_, _, _, _, _, _, _)
pcidev_init_scan(devs, bar, filter, pdevs, c, bits, d) ==
    IF d > Len(pdevs) THEN [found |-> 0, found_dev |-> 0]
    ELSE LET rest == pcidev_init_scan(devs, bar, filter, pdevs, c, bits, d + 1)
             hit == /\ pci_filter_match(filter, pdevs[d])
                    /\ MatchIndex(devs, pdevs[d], 1) <= Len(devs)
                    /\ ~IsZero(pcidev_readbar(c[d], bar, bits))
         IN  IF hit
             THEN [found |-> rest.found + 1,
                   found_dev |-> IF rest.found_dev # 0 THEN rest.found_dev ELSE d]
             ELSE rest

\* the loop of flashrom_pci_init over pacc->devices, from device d on
RECURSIVE flashrom_pci_init_scan(_, _, _, _)
flashrom_pci_init_scan(matches, filter, pdevs, d) ==
    IF d > Len(pdevs) THEN [found |-> 0, found_dev |-> 0, found_match |-> 0]
    ELSE LET rest == flashrom_pci_init_scan(matches, filter, pdevs, d + 1)
             i == MatchIndex(matches, pdevs[d], 1)
             hit == pci_filter_match(filter, pdevs[d]) /\ i <= Len(matches)
         IN  IF hit
             THEN [found |-> rest.found + 1,
                   found_dev |-> IF rest.found_dev # 0 THEN rest.found_dev ELSE d,
                   found_match |-> IF rest.found_dev # 0 THEN rest.found_match ELSE i]
             ELSE rest

\* pcidev_init: the device found (0 is NULL) and what became of the context
pcidev_init(devs, bar, param, p, fns, h, pdevs, c, bits) ==
    LET ic == pci_init_common(p, fns, h)
        scan == pcidev_init_scan(devs, bar, param, pdevs, c, bits, 1)
        found_dev == IF ic.ret # 0 \/ param.err \/ scan.found # 1 THEN 0 ELSE scan.found_dev
    IN  [ret |-> found_dev, init_ret |-> ic.ret, pacc |-> ic.pacc, fns |-> ic.fns,
         hist |-> ic.hist, found |-> scan.found]

---------------------------------------------------------------------------
\* struct flashrom_pci_device: mapping of a BAR through <sysfs_path>resource<N>.
\* o names the system call that fails in this call ("ok": none does).

IoOutcomes == { "ok", "open", "read", "write", "mmap" }

\* the handle calloc returns, filled in by flashrom_pci_init
NewDevice(d, pdev) ==
    [alive |-> TRUE, returned |-> FALSE, name |-> 1,
     vendor_id |-> pdev.vendor_id, device_id |-> pdev.device_id,
     pci |-> d, sysfs_path |-> d, mmio |-> 0, mmio_size |-> 0,
     enabled |-> FALSE, was_disabled |-> FALSE]

\* an existing mapping silently replaced (the check of device->mmio left out)
flashrom_pci_mmio_map_remap(dv, bar, o, pdevs, maps, addr) ==
    LET same == [ret |-> 0, dev |-> dv, vma |-> maps, io |-> <<>>]
    IN  IF bar < 0 \/ bar > 5 THEN [same EXCEPT !.ret = EINVAL]
        ELSE IF o = "open" THEN [same EXCEPT !.ret = ENOENT, !.io = <<"open">>]
        ELSE LET size == pdevs[dv.pci].size[bar + 1]
             IN  IF o = "mmap" \/ size = 0
                 THEN [ret |-> IF size = 0 THEN EINVAL ELSE ENOMEM,
                       dev |-> [dv EXCEPT !.mmio = MAP_FAILED, !.mmio_size = 0],
                       vma |-> maps, io |-> <<"open", "mmap">>]
                 ELSE [ret |-> 0,
                       dev |-> [dv EXCEPT !.mmio = addr, !.mmio_size = size],
                       vma |-> maps \cup {[addr |-> addr, len |-> size, dev |-> dv.pci, bar |-> bar]},
                       io |-> <<"open", "mmap">>]

\* mmio_size left at the BAR's size when mmap fails
flashrom_pci_mmio_map_keep_size(dv, bar, o, pdevs, maps, addr) ==
    LET same == [ret |-> 0, dev |-> dv, vma |-> maps, io |-> <<>>]
    IN  IF bar < 0 \/ bar > 5 THEN [same EXCEPT !.ret = EINVAL]
        ELSE IF dv.mmio # 0
        THEN IF pdevs[dv.pci].size[bar + 1] # dv.mmio_size
             THEN [same EXCEPT !.ret = EALREADY]
             ELSE same
        ELSE IF o = "open" THEN [same EXCEPT !.ret = ENOENT, !.io = <<"open">>]
        ELSE LET size == pdevs[dv.pci].size[bar + 1]
             IN  IF o = "mmap" \/ size = 0
                 THEN [ret |-> IF size = 0 THEN EINVAL ELSE ENOMEM,
                       dev |-> [dv EXCEPT !.mmio = MAP_FAILED, !.mmio_size = size],
                       vma |-> maps, io |-> <<"open", "mmap">>]
                 ELSE [ret |-> 0,
                       dev |-> [dv EXCEPT !.mmio = addr, !.mmio_size = size],
                       vma |-> maps \cup {[addr |-> addr, len |-> size, dev |-> dv.pci, bar |-> bar]},
                       io |-> <<"open", "mmap">>]

\* addr is the address mmap would return
flashrom_pci_mmio_map(dv, bar, o, pdevs, maps, addr) ==
    LET same == [ret |-> 0, dev |-> dv, vma |-> maps, io |-> <<>>]
    IN  IF bar < 0 \/ bar > 5 THEN [same EXCEPT !.ret = EINVAL]
        ELSE IF dv.mmio # 0
        THEN IF pdevs[dv.pci].size[bar + 1] # dv.mmio_size
             THEN [same EXCEPT !.ret = EALREADY]
             ELSE same
        ELSE IF o = "open" THEN [same EXCEPT !.ret = ENOENT, !.io = <<"open">>]
        ELSE LET size == pdevs[dv.pci].size[bar + 1]
             IN  IF o = "mmap" \/ size = 0
                 THEN [ret |-> IF size = 0 THEN EINVAL ELSE ENOMEM,
                       dev |-> [dv EXCEPT !.mmio = MAP_FAILED, !.mmio_size = 0],
                       vma |-> maps, io |-> <<"open", "mmap">>]
                 ELSE [ret |-> 0,
                       dev |-> [dv EXCEPT !.mmio = addr, !.mmio_size = size],
                       vma |-> maps \cup {[addr |-> addr, len |-> size, dev |-> dv.pci, bar |-> bar]},
                       io |-> <<"open", "mmap">>]

flashrom_pci_mmio_unmap(dv, maps) ==
    [dev |-> [dv EXCEPT !.mmio = 0, !.mmio_size = 0],
     vma |-> IF dv.mmio # 0 /\ dv.mmio_size # 0 /\ dv.mmio # MAP_FAILED
             THEN { m \in maps : ~(m.addr = dv.mmio /\ m.len = dv.mmio_size) }
             ELSE maps,
     munmap |-> dv.mmio # 0 /\ dv.mmio_size # 0 /\ dv.mmio # MAP_FAILED]

---------------------------------------------------------------------------
\* Enabling and disabling a device through <sysfs_path>enable.
\* file is the content of the enable file: "0", "1" or anything else.

flashrom_pci_device_enable(dv, file, o) ==
    LET same == [ret |-> 0, dev |-> dv, file |-> file, io |-> <<>>]
    IN  IF dv.enabled THEN same
        ELSE IF o = "open" THEN [same EXCEPT !.ret = ENOENT, !.io = <<"open">>]
        ELSE IF o = "read" THEN [same EXCEPT !.ret = EIO, !.io = <<"open", "read">>]
        ELSE IF file = "0"
        THEN IF o = "write"
             THEN [ret |-> EIO, dev |-> [dv EXCEPT !.was_disabled = TRUE],
                   file |-> file, io |-> <<"open", "read", "write">>]
             ELSE [ret |-> 0, dev |-> [dv EXCEPT !.was_disabled = TRUE, !.enabled = TRUE],
                   file |-> "1", io |-> <<"open", "read", "write">>]
        ELSE IF file # "1" THEN [same EXCEPT !.ret = EINVAL, !.io = <<"open", "read">>]
        ELSE [same EXCEPT !.dev = [dv EXCEPT !.enabled = TRUE], !.io = <<"open", "read">>]

flashrom_pci_device_disable(dv, file, o) ==
    LET same == [ret |-> 0, dev |-> dv, file |-> file, io |-> <<>>]
    IN  IF ~dv.enabled \/ ~dv.was_disabled THEN same
        ELSE IF o = "open" THEN [same EXCEPT !.ret = ENOENT, !.io = <<"open">>]
        ELSE IF o = "read" THEN [same EXCEPT !.ret = EIO, !.io = <<"open", "read">>]
        ELSE IF file = "1"
        THEN IF o = "write"
             THEN [same EXCEPT !.ret = EIO, !.io = <<"open", "read", "write">>]
             ELSE [ret |-> 0, dev |-> [dv EXCEPT !.enabled = FALSE],
                   file |-> "0", io |-> <<"open", "read", "write">>]
        ELSE IF file # "0" THEN [same EXCEPT !.ret = EINVAL, !.io = <<"open", "read">>]
        ELSE [same EXCEPT !.dev = [dv EXCEPT !.enabled = FALSE], !.io = <<"open", "read">>]

\* the teardown of a handle, run by the shutdown registry
\* the teardown with the unmap step left out
flashrom_pci_device_shutdown_mapped(dv, file, o, maps) ==
    IF dv.sysfs_path = 0
    THEN [ret |-> 1, dev |-> dv, file |-> file, vma |-> maps, io |-> <<>>, dis_ret |-> 0]
    ELSE LET dis == flashrom_pci_device_disable(dv, file, o)
         IN  [ret |-> 0,
              dev |-> [dis.dev EXCEPT !.sysfs_path = 0, !.name = 0, !.alive = FALSE],
              file |-> dis.file, vma |-> maps, io |-> dis.io, dis_ret |-> dis.ret]

\* dis_ret is what flashrom_pci_device_disable returned; the teardown ignores it
flashrom_pci_device_shutdown(dv, file, o, maps) ==
    IF dv.sysfs_path = 0
    THEN [ret |-> 1, dev |-> dv, file |-> file, vma |-> maps, io |-> <<>>, dis_ret |-> 0]
    ELSE LET u == flashrom_pci_mmio_unmap(dv, maps)
             dis == flashrom_pci_device_disable(u.dev, file, o)
         IN  [ret |-> 0,
              dev |-> [dis.dev EXCEPT !.sysfs_path = 0, !.name = 0, !.alive = FALSE],
              file |-> dis.file, vma |-> u.vma, io |-> dis.io, dis_ret |-> dis.ret]

\* the teardown registered only once the device is enabled
flashrom_pci_init_enable_first(matches, param, o, p, fns, h, pdevs, devices, files) ==
    LET ic == pci_init_common(p, fns, h)
        scan == flashrom_pci_init_scan(matches, param, pdevs, 1)
        none == [ret |-> 0, init_ret |-> ic.ret, pacc |-> ic.pacc, fns |-> ic.fns,
                 hist |-> ic.hist, device |-> devices, file |-> files, io |-> <<>>,
                 found_dev |-> 0]
    IN  IF ic.ret # 0 \/ param.err \/ scan.found # 1 THEN none
        ELSE LET d == scan.found_dev
                 n == Len(devices) + 1
                 reg == register_shutdown(ic.fns, "flashrom_pci_device_shutdown", n)
                 en == flashrom_pci_device_enable(NewDevice(d, pdevs[d]), files[d], o)
                 ok == en.ret = 0
             IN  [ret |-> IF ok THEN n ELSE 0, init_ret |-> ic.ret, pacc |-> ic.pacc,
                  fns |-> IF ok THEN reg.fns ELSE ic.fns, hist |-> ic.hist,
                  device |-> Append(devices, [en.dev EXCEPT !.returned = ok]),
                  file |-> [files EXCEPT ![d] = en.file], io |-> en.io,
                  found_dev |-> d]

\* flashrom_pci_init: the handle returned (an index of device, 0 is NULL)
flashrom_pci_init(matches, param, o, p, fns, h, pdevs, devices, files) ==
    LET ic == pci_init_common(p, fns, h)
        scan == flashrom_pci_init_scan(matches, param, pdevs, 1)
        none == [ret |-> 0, init_ret |-> ic.ret, pacc |-> ic.pacc, fns |-> ic.fns,
                 hist |-> ic.hist, device |-> devices, file |-> files, io |-> <<>>,
                 found_dev |-> 0]
    IN  IF ic.ret # 0 \/ param.err \/ scan.found # 1 THEN none
        ELSE LET d == scan.found_dev
                 n == Len(devices) + 1
                 reg == register_shutdown(ic.fns, "flashrom_pci_device_shutdown", n)
                 en == flashrom_pci_device_enable(NewDevice(d, pdevs[d]), files[d], o)
                 ok == en.ret = 0
             IN  [ret |-> IF ok THEN n ELSE 0, init_ret |-> ic.ret, pacc |-> ic.pacc,
                  fns |-> reg.fns, hist |-> ic.hist,
                  device |-> Append(devices, [en.dev EXCEPT !.returned = ok]),
                  file |-> [files EXCEPT ![d] = en.file], io |-> en.io,
                  found_dev |-> d]

---------------------------------------------------------------------------
\* The undo log of configuration-space writes.

Widths == [byte |-> 1, word |-> 2, long |-> 4]

pci_read(c, reg, type) ==
    CASE type = "byte" -> pci_read_byte(c, reg)
      [] type = "word" -> pci_read_word(c, reg)
      [] type = "long" -> pci_read_long(c, reg)

\* register_undo_pci_write followed by the write; d is the caller's struct pci_dev
rpci_write(d, reg, type, data, p, fns, undos, pdevs, c) ==
    LET n == Len(undos) + 1
        entry == [dev |-> IF p # 0
                          THEN pci_get_dev(pdevs, pdevs[d].domain, pdevs[d].bus,
                                           pdevs[d].dev, pdevs[d].func)
                          ELSE 0,
                  reg |-> reg, type |-> type, data |-> pci_read(c[d], reg, type),
                  freed |-> FALSE]
        r == register_shutdown(fns, "undo_pci_write", n)
    IN  [fns |-> r.fns, undo_data |-> Append(undos, entry),
         cfg |-> [c EXCEPT ![d] = pci_write(c[d], reg, data)]]

\* the saved value written back as a byte whatever the width of the entry
undo_pci_write_as_byte(n, p, undos, c) ==
    LET data == undos[n]
    IN  IF p = 0 \/ data.dev = 0
        THEN [ret |-> 1, undo_data |-> undos, cfg |-> c, written |-> <<>>]
        ELSE [ret |-> 0, undo_data |-> [undos EXCEPT ![n].freed = TRUE],
              cfg |-> [c EXCEPT ![data.dev] = pci_write(c[data.dev], data.reg, SubSeq(data.data, 1, 1))],
              written |-> SubSeq(data.data, 1, 1)]

\* undo_pci_write(p) for the n-th undo entry
undo_pci_write(n, p, undos, c) ==
    LET data == undos[n]
        bytes == SubSeq(data.data, 1, Widths[data.type])
    IN  IF p = 0 \/ data.dev = 0
        THEN [ret |-> 1, undo_data |-> undos, cfg |-> c, written |-> <<>>]
        ELSE [ret |-> 0, undo_data |-> [undos EXCEPT ![n].freed = TRUE],
              cfg |-> [c EXCEPT ![data.dev] = pci_write(c[data.dev], data.reg, bytes)],
              written |-> bytes]

---------------------------------------------------------------------------
\* Accessors of mmio.  A byte is 0..255, a uint32_t the four bytes it occupies
\* in the region.  Every accessor returns what it returns in C (ret), the errno
\* it sets (0: left alone), the resources after the call, the accesses it made
\* to the region (trace) and whether it dereferenced a pointer that is not
\* inside a live mapping (fault; such an access is undefined in C, the model
\* records that it happened and leaves the resources alone).

RECURSIVE BitAnd(_, _, _)
BitAnd(a, b, n) ==
    IF n = 0 THEN 0 ELSE (a % 2) * (b % 2) + 2 * BitAnd(a \div 2, b \div 2, n - 1)

And8(a, b) == BitAnd(a, b, 8)
Or8(a, b) == a + b - And8(a, b)
Not8(a) == 255 - a

\* the live mappings device->mmio points to
MmioRegion(dv, maps) == { m \in maps : m.addr = dv.mmio }

\* does device->mmio[address .. address + width - 1] lie inside a live mapping
MmioValid(dv, address, width, maps) ==
    \E m \in MmioRegion(dv, maps) : address >= 0 /\ address + width <= m.len

\* the bytes device->mmio[address .. address + width - 1]
MmioLoad(dv, address, width, maps, res) ==
    LET m == CHOOSE m \in MmioRegion(dv, maps) : TRUE
    IN  [i \in 1 .. width |-> res[m.dev][m.bar + 1][address + i]]

MmioStore(dv, address, bytes, maps, res) ==
    LET m == CHOOSE m \in MmioRegion(dv, maps) : TRUE
    IN  [res EXCEPT ![m.dev][m.bar + 1] =
            [i \in 1 .. Len(@) |->
                IF i > address /\ i <= address + Len(bytes) THEN bytes[i - address] ELSE @[i]]]

MmioRefused(ret, res) ==
    [ret |-> ret, errno |-> EFAULT, res |-> res, trace |-> <<>>, fault |-> FALSE]

MmioFault(res) ==
    [ret |-> <<>>, errno |-> 0, res |-> res, trace |-> <<>>, fault |-> TRUE]

\* the alignment test of the 32-bit accessors left out
flashrom_pci_mmio_long_write_unaligned(dv, address, value, maps, res) ==
    IF address >= dv.mmio_size THEN MmioRefused(<<>>, res)
    ELSE IF ~MmioValid(dv, address, 4, maps) THEN MmioFault(res)
    ELSE [ret |-> <<>>, errno |-> 0, res |-> MmioStore(dv, address, value, maps, res),
          trace |-> << <<"write", address, 4>> >>, fault |-> FALSE]

\* the masked value written without the bits of the old content outside the mask
flashrom_pci_mmio_byte_mask_overwrite(dv, address, value, mask, maps, res) ==
    IF address >= dv.mmio_size THEN MmioRefused(<<>>, res)
    ELSE IF ~MmioValid(dv, address, 1, maps) THEN MmioFault(res)
    ELSE [ret |-> <<>>, errno |-> 0,
          res |-> MmioStore(dv, address, <<And8(value[1], mask[1])>>, maps, res),
          trace |-> << <<"read", address, 1>>, <<"write", address, 1>> >>,
          fault |-> FALSE]

flashrom_pci_mmio_byte_read(dv, address, maps, res) ==
    IF address >= dv.mmio_size THEN MmioRefused(<<255>>, res)
    ELSE IF ~MmioValid(dv, address, 1, maps) THEN MmioFault(res)
    ELSE [ret |-> MmioLoad(dv, address, 1, maps, res), errno |-> 0, res |-> res,
          trace |-> << <<"read", address, 1>> >>, fault |-> FALSE]

flashrom_pci_mmio_byte_write(dv, address, value, maps, res) ==
    IF address >= dv.mmio_size THEN MmioRefused(<<>>, res)
    ELSE IF ~MmioValid(dv, address, 1, maps) THEN MmioFault(res)
    ELSE [ret |-> <<>>, errno |-> 0, res |-> MmioStore(dv, address, value, maps, res),
          trace |-> << <<"write", address, 1>> >>, fault |-> FALSE]

flashrom_pci_mmio_byte_mask(dv, address, value, mask, maps, res) ==
    IF address >= dv.mmio_size THEN MmioRefused(<<>>, res)
    ELSE IF ~MmioValid(dv, address, 1, maps) THEN MmioFault(res)
    ELSE LET value1 == And8(value[1], mask[1])
             temp == And8(MmioLoad(dv, address, 1, maps, res)[1], Not8(mask[1]))
             temp1 == Or8(temp, And8(value1, mask[1]))
         IN  [ret |-> <<>>, errno |-> 0, res |-> MmioStore(dv, address, <<temp1>>, maps, res),
              trace |-> << <<"read", address, 1>>, <<"write", address, 1>> >>,
              fault |-> FALSE]

flashrom_pci_mmio_long_read(dv, address, maps, res) ==
    IF address >= dv.mmio_size \/ And8(address % 256, 3) # 0
    THEN MmioRefused(<<255, 255, 255, 255>>, res)
    ELSE IF ~MmioValid(dv, address, 4, maps) THEN MmioFault(res)
    ELSE [ret |-> MmioLoad(dv, address, 4, maps, res), errno |-> 0, res |-> res,
          trace |-> << <<"read", address, 4>> >>, fault |-> FALSE]

flashrom_pci_mmio_long_write(dv, address, value, maps, res) ==
    IF address >= dv.mmio_size \/ And8(address % 256, 3) # 0 THEN MmioRefused(<<>>, res)
    ELSE IF ~MmioValid(dv, address, 4, maps) THEN MmioFault(res)
    ELSE [ret |-> <<>>, errno |-> 0, res |-> MmioStore(dv, address, value, maps, res),
          trace |-> << <<"write", address, 4>> >>, fault |-> FALSE]

flashrom_pci_mmio_long_mask(dv, address, value, mask, maps, res) ==
    IF address >= dv.mmio_size \/ And8(address % 256, 3) # 0 THEN MmioRefused(<<>>, res)
    ELSE IF ~MmioValid(dv, address, 4, maps) THEN MmioFault(res)
    ELSE LET old == MmioLoad(dv, address, 4, maps, res)
             value1 == [i \in 1 .. 4 |-> And8(value[i], mask[i])]
             temp == [i \in 1 .. 4 |-> And8(old[i], Not8(mask[i]))]
             temp1 == [i \in 1 .. 4 |-> Or8(temp[i], And8(value1[i], mask[i]))]
         IN  [ret |-> <<>>, errno |-> 0, res |-> MmioStore(dv, address, temp1, maps, res),
              trace |-> << <<"read", address, 4>>, <<"write", address, 4>> >>,
              fault |-> FALSE]

---------------------------------------------------------------------------
\* The state machine.  Every call runs to completion in one step (the program
\* is single-threaded and synchronous); last records the call just made, with
\* the arguments the call came to look at.

NoDevice ==
    [alive |-> FALSE, returned |-> FALSE, name |-> 0, vendor_id |-> 0, device_id |-> 0,
     pci |-> 0, sysfs_path |-> 0, mmio |-> 0, mmio_size |-> 0,
     enabled |-> FALSE, was_disabled |-> FALSE]

NoCall ==
    [op |-> "none", ret |-> 0, init_ret |-> 0, h |-> 0, dev |-> 0, bar |-> 0, reg |-> 0,
     type |-> "none", data |-> <<>>, old |-> <<>>, devs |-> <<>>, param |-> NoParam,
     io |-> <<>>, munmap |-> FALSE, pre_pacc |-> 0, pre_fns |-> 0, pre_dev |-> NoDevice,
     pre_file |-> "-", address |-> 0, mask |-> <<>>, errno |-> 0, trace |-> <<>>,
     fault |-> FALSE, pre_res |-> <<>>, dis_ret |-> 0, found |-> 0]

\* the call just made, with the context and registry it found
Call(op) == [NoCall EXCEPT !.op = op, !.pre_pacc = pacc, !.pre_fns = Len(shutdown_fn)]

Counted(h) == [h EXCEPT !.calls = @ + 1]

MayCall == phase = "run" /\ hist.calls < MaxCalls

\* the handles the caller holds: returned by flashrom_pci_init and not yet freed
Held == { h \in 1 .. Len(device) : device[h].alive /\ device[h].returned }

InitWith(Kinds, Prefills, Files, Bits) ==
    /\ pacc = 0
    /\ uintptr_bits \in Bits
    /\ \E k \in [Dev -> Kinds] :
          /\ pci_dev = [d \in Dev |-> PciDev(d, DevKinds[k[d]])]
          /\ cfg = [d \in Dev |-> DevKinds[k[d]].image]
          /\ hist = [ctx_allocs |-> 0, ctx_cleanups |-> 0, calls |-> 0, maps |-> 0,
                     undo_trace |-> <<>>, writes |-> <<>>, en_wrote |-> <<>>, kind |-> k]
    /\ resource = [d \in Dev |-> ResourceImage]
    /\ enable_file \in [Dev -> Files]
    /\ \E n \in Prefills : shutdown_fn = [i \in 1 .. n |-> [func |-> "other", data |-> 0]]
    /\ undo_data = <<>>
    /\ device = <<>>
    /\ vma = {}
    /\ phase = "run"
    /\ last = NoCall

\* the configuration space as it was before any call
Cfg0 == [d \in Dev |-> DevKinds[hist.kind[d]].image]

PciInitCommon ==
    /\ phase = "run"
    /\ LET r == pci_init_common(pacc, shutdown_fn, hist)
       IN  /\ pacc' = r.pacc
           /\ shutdown_fn' = r.fns
           /\ hist' = r.hist
           /\ last' = [Call("pci_init_common") EXCEPT !.ret = r.ret, !.init_ret = r.ret]
    /\ UNCHANGED <<uintptr_bits, pci_dev, resource, cfg, enable_file, undo_data, device, vma, phase>>

PcidevInit(devs, bar, param) ==
    /\ phase = "run"
    /\ LET r == pcidev_init(devs, bar, param, pacc, shutdown_fn, hist,
                            pci_dev, cfg, uintptr_bits)
       IN  /\ pacc' = r.pacc
           /\ shutdown_fn' = r.fns
           /\ hist' = r.hist
           /\ last' = IF r.init_ret # 0
                      THEN [Call("pcidev_init") EXCEPT !.init_ret = r.init_ret]
                      ELSE [Call("pcidev_init") EXCEPT !.ret = r.ret, !.dev = r.ret,
                                !.bar = bar, !.devs = devs, !.param = param,
                                !.found = IF param.err THEN 0 ELSE r.found]
    /\ UNCHANGED <<uintptr_bits, pci_dev, resource, cfg, enable_file, undo_data, device, vma, phase>>

\* pcidev_readbar called on device d; the address it returns is kept in data
PcidevReadbar(d, bar) ==
    /\ phase = "run"
    /\ last' = [Call("pcidev_readbar") EXCEPT !.dev = d, !.bar = bar,
                    !.data = pcidev_readbar(cfg[d], bar, uintptr_bits)]
    /\ UNCHANGED <<pacc, uintptr_bits, pci_dev, resource, cfg, enable_file, shutdown_fn,
                   undo_data, device, vma, phase, hist>>

\* what the history keeps of an enable call: whether the call that marked the
\* handle enabled wrote '1' itself
EnWrote(flags, h, before, r) ==
    LET f == IF h > Len(flags) THEN Append(flags, FALSE) ELSE flags
    IN  IF r.ret = 0 /\ ~before.enabled /\ r.dev.enabled
        THEN [f EXCEPT ![h] = (r.io = <<"open", "read", "write">>)]
        ELSE f

FlashromPciInit(matches, param, o) ==
    /\ phase = "run"
    /\ LET r == flashrom_pci_init(matches, param, o, pacc, shutdown_fn, hist,
                                  pci_dev, device, enable_file)
           made == Len(r.device) > Len(device)
       IN  /\ pacc' = r.pacc
           /\ shutdown_fn' = r.fns
           /\ device' = r.device
           /\ enable_file' = r.file
           /\ hist' = IF made
                      THEN [r.hist EXCEPT !.en_wrote =
                               EnWrote(@, Len(r.device), NoDevice,
                                       [ret |-> IF r.ret = 0 THEN 1 ELSE 0,
                                        dev |-> r.device[Len(r.device)], io |-> r.io])]
                      ELSE r.hist
           /\ last' = IF r.init_ret # 0
                      THEN [Call("flashrom_pci_init") EXCEPT !.init_ret = r.init_ret]
                      ELSE [Call("flashrom_pci_init") EXCEPT
                                !.ret = r.ret, !.dev = r.found_dev,
                                !.h = IF made THEN Len(r.device) ELSE 0,
                                !.devs = matches, !.param = param, !.io = r.io,
                                !.pre_file = IF made THEN enable_file[r.found_dev] ELSE "-"]
    /\ UNCHANGED <<uintptr_bits, pci_dev, resource, cfg, undo_data, vma, phase>>

RpciWrite(d, reg, type, data) ==
    /\ MayCall
    /\ LET r == rpci_write(d, reg, type, data, pacc, shutdown_fn, undo_data, pci_dev, cfg)
       IN  /\ shutdown_fn' = r.fns
           /\ undo_data' = r.undo_data
           /\ cfg' = r.cfg
           /\ hist' = [Counted(hist) EXCEPT !.writes =
                          Append(@, [dev |-> d, reg |-> reg, type |-> type,
                                     old |-> pci_read(cfg[d], reg, type)])]
           /\ last' = [Call("rpci_write") EXCEPT !.dev = d, !.reg = reg, !.type = type,
                           !.data = data, !.old = pci_read(cfg[d], reg, type)]
    /\ UNCHANGED <<pacc, uintptr_bits, pci_dev, resource, enable_file, device, vma, phase>>

MmioMap(h, bar, o) ==
    /\ MayCall
    /\ h \in Held
    /\ LET r == flashrom_pci_mmio_map(device[h], bar, o, pci_dev, vma, hist.maps + 1)
       IN  /\ device' = [device EXCEPT ![h] = r.dev]
           /\ vma' = r.vma
           /\ hist' = [Counted(hist) EXCEPT !.maps = IF r.vma # vma THEN @ + 1 ELSE @]
           /\ last' = [Call("flashrom_pci_mmio_map") EXCEPT !.ret = r.ret, !.h = h,
                           !.bar = bar, !.io = r.io, !.pre_dev = device[h]]
    /\ UNCHANGED <<pacc, uintptr_bits, pci_dev, resource, cfg, enable_file, shutdown_fn, undo_data, phase>>

MmioUnmap(h) ==
    /\ MayCall
    /\ h \in Held
    /\ LET r == flashrom_pci_mmio_unmap(device[h], vma)
       IN  /\ device' = [device EXCEPT ![h] = r.dev]
           /\ vma' = r.vma
           /\ last' = [Call("flashrom_pci_mmio_unmap") EXCEPT !.h = h, !.munmap = r.munmap,
                           !.pre_dev = device[h]]
    /\ hist' = Counted(hist)
    /\ UNCHANGED <<pacc, uintptr_bits, pci_dev, resource, cfg, enable_file, shutdown_fn, undo_data, phase>>

DeviceEnable(h, o) ==
    /\ MayCall
    /\ h \in Held
    /\ LET d == device[h].pci
           r == flashrom_pci_device_enable(device[h], enable_file[d], o)
       IN  /\ device' = [device EXCEPT ![h] = r.dev]
           /\ enable_file' = [enable_file EXCEPT ![d] = r.file]
           /\ hist' = [Counted(hist) EXCEPT !.en_wrote = EnWrote(@, h, device[h], r)]
           /\ last' = [Call("flashrom_pci_device_enable") EXCEPT !.ret = r.ret, !.h = h,
                           !.dev = d, !.io = r.io, !.pre_dev = device[h],
                           !.pre_file = enable_file[d]]
    /\ UNCHANGED <<pacc, uintptr_bits, pci_dev, resource, cfg, shutdown_fn, undo_data, vma, phase>>

DeviceDisable(h, o) ==
    /\ MayCall
    /\ h \in Held
    /\ LET d == device[h].pci
           r == flashrom_pci_device_disable(device[h], enable_file[d], o)
       IN  /\ device' = [device EXCEPT ![h] = r.dev]
           /\ enable_file' = [enable_file EXCEPT ![d] = r.file]
           /\ last' = [Call("flashrom_pci_device_disable") EXCEPT !.ret = r.ret, !.h = h,
                           !.dev = d, !.io = r.io, !.pre_dev = device[h],
                           !.pre_file = enable_file[d]]
    /\ hist' = Counted(hist)
    /\ UNCHANGED <<pacc, uintptr_bits, pci_dev, resource, cfg, shutdown_fn, undo_data, vma, phase>>

\* an accessor call on a handle the caller holds; r is what the accessor did
MmioCall(h, op, address, value, mask, r) ==
    /\ MayCall
    /\ h \in Held
    /\ resource' = r.res
    /\ last' = [Call(op) EXCEPT !.h = h, !.ret = r.ret, !.address = address, !.data = value,
                    !.mask = mask, !.errno = r.errno, !.trace = r.trace, !.fault = r.fault,
                    !.pre_dev = device[h], !.pre_res = resource]
    /\ hist' = Counted(hist)
    /\ UNCHANGED <<pacc, uintptr_bits, pci_dev, cfg, enable_file, shutdown_fn, undo_data,
                   device, vma, phase>>

MmioByteRead(h, address) ==
    MmioCall(h, "flashrom_pci_mmio_byte_read", address, <<>>, <<>>,
             flashrom_pci_mmio_byte_read(device[h], address, vma, resource))

MmioByteWrite(h, address, value) ==
    MmioCall(h, "flashrom_pci_mmio_byte_write", address, value, <<>>,
             flashrom_pci_mmio_byte_write(device[h], address, value, vma, resource))

MmioByteMask(h, address, value, mask) ==
    MmioCall(h, "flashrom_pci_mmio_byte_mask", address, value, mask,
             flashrom_pci_mmio_byte_mask(device[h], address, value, mask, vma, resource))

MmioLongRead(h, address) ==
    MmioCall(h, "flashrom_pci_mmio_long_read", address, <<>>, <<>>,
             flashrom_pci_mmio_long_read(device[h], address, vma, resource))

MmioLongWrite(h, address, value) ==
    MmioCall(h, "flashrom_pci_mmio_long_write", address, value, <<>>,
             flashrom_pci_mmio_long_write(device[h], address, value, vma, resource))

MmioLongMask(h, address, value, mask) ==
    MmioCall(h, "flashrom_pci_mmio_long_mask", address, value, mask,
             flashrom_pci_mmio_long_mask(device[h], address, value, mask, vma, resource))

\* another consumer of the device rewrites its enable file
OtherEnableWrite(d, v) ==
    /\ phase = "run"
    /\ enable_file[d] # v
    /\ enable_file' = [enable_file EXCEPT ![d] = v]
    /\ last' = [Call("other_enable_write") EXCEPT !.dev = d, !.pre_file = enable_file[d]]
    /\ UNCHANGED <<pacc, uintptr_bits, pci_dev, resource, cfg, shutdown_fn, undo_data, device, vma,
                   phase, hist>>

\* the entry the drain takes next: the one registered last
shutdown_pop(fns) == [entry |-> fns[Len(fns)], fns |-> SubSeq(fns, 1, Len(fns) - 1)]

\* One step of the drain of the shutdown registry at program shutdown: the
\* last entry is taken off and its callback runs; its result is only logged.
ShutdownStep(o) ==
    /\ phase # "done"
    /\ UNCHANGED <<uintptr_bits, pci_dev, resource>>
    /\ IF shutdown_fn = <<>>
       THEN /\ phase' = "done"
            /\ last' = Call("shutdown_done")
            /\ UNCHANGED <<pacc, cfg, enable_file, shutdown_fn, undo_data, device, vma, hist>>
       ELSE LET top == shutdown_pop(shutdown_fn)
                e == top.entry
            IN  /\ phase' = "drain"
                /\ shutdown_fn' = top.fns
                /\ CASE e.func = "pcidev_shutdown" ->
                          LET r == pcidev_shutdown(pacc, hist)
                          IN  /\ pacc' = r.pacc
                              /\ hist' = r.hist
                              /\ last' = [Call("pcidev_shutdown") EXCEPT !.ret = r.ret]
                              /\ UNCHANGED <<cfg, enable_file, undo_data, device, vma>>
                     [] e.func = "undo_pci_write" ->
                          LET r == undo_pci_write(e.data, pacc, undo_data, cfg)
                              w == hist.writes[e.data]
                          IN  /\ undo_data' = r.undo_data
                              /\ cfg' = r.cfg
                              /\ hist' = [hist EXCEPT !.undo_trace =
                                             Append(@, [n |-> e.data, ret |-> r.ret,
                                                        written |-> r.written,
                                                        after |-> pci_read(r.cfg[w.dev], w.reg, w.type)])]
                              /\ last' = [Call("undo_pci_write") EXCEPT !.ret = r.ret,
                                              !.h = e.data, !.data = r.written]
                              /\ UNCHANGED <<pacc, enable_file, device, vma>>
                     [] e.func = "flashrom_pci_device_shutdown" ->
                          LET dv == device[e.data]
                              r == flashrom_pci_device_shutdown(dv, enable_file[dv.pci], o, vma)
                          IN  /\ device' = [device EXCEPT ![e.data] = r.dev]
                              /\ enable_file' = [enable_file EXCEPT ![dv.pci] = r.file]
                              /\ vma' = r.vma
                              /\ last' = [Call("flashrom_pci_device_shutdown") EXCEPT
                                              !.ret = r.ret, !.h = e.data, !.dev = dv.pci,
                                              !.io = r.io, !.pre_dev = dv,
                                              !.pre_file = enable_file[dv.pci],
                                              !.dis_ret = r.dis_ret]
                              /\ UNCHANGED <<pacc, cfg, undo_data, hist>>
                     [] OTHER ->
                          /\ last' = Call("other_shutdown")
                          /\ UNCHANGED <<pacc, cfg, enable_file, undo_data, device, vma, hist>>

---------------------------------------------------------------------------
\* Specifications.

EnableOutcomes == { "ok", "open", "read", "write" }
MapOutcomes == { "ok", "open", "mmap" }
Bars == { PCI_BASE_ADDRESS_0, PCI_BASE_ADDRESS_1 }
FileContents == { "0", "1", "x" }

\* Resolution and the life of the enumeration context.
InitResolve ==
    InitWith(DOMAIN DevKinds, {0, MaxShutdownFn - 1, MaxShutdownFn}, {"0"}, {32, 64})

NextResolve ==
    \/ PciInitCommon
    \/ \E devs \in Whitelists, bar \in Bars, param \in PciParams : PcidevInit(devs, bar, param)
    \/ \E matches \in Whitelists, param \in PciParams, o \in EnableOutcomes :
          FlashromPciInit(matches, param, o)
    \/ \E o \in {"ok"} : ShutdownStep(o)

SpecResolve == InitResolve /\ [][NextResolve]_vars

\* The undo log: a context, writes of every width to the device-specific
\* registers 0x40..0x43 of any device, and the drain.
WriteArgs ==
    { <<64, "byte", <<1>>>>, <<65, "byte", <<2>>>>, <<64, "word", <<3, 4>>>>,
      <<66, "word", <<5, 6>>>>, <<64, "long", <<7, 8, 9, 10>>>> }

InitUndo == InitWith({1}, {0, MaxShutdownFn - 2}, {"0"}, {64})

NextUndo ==
    \/ PciInitCommon
    \/ \E d \in Dev, w \in WriteArgs : pacc # 0 /\ RpciWrite(d, w[1], w[2], w[3])
    \/ \E o \in {"ok"} : ShutdownStep(o)

SpecUndo == InitUndo /\ [][NextUndo]_vars

\* The undo log with writes made at any time before the drain, also while
\* there is no enumeration context.
InitUndoAny == InitWith({1}, {0}, {"0"}, {64})

NextUndoAny ==
    \/ PciInitCommon
    \/ \E d \in Dev, w \in WriteArgs : RpciWrite(d, w[1], w[2], w[3])
    \/ \E o \in {"ok"} : ShutdownStep(o)

SpecUndoAny == InitUndoAny /\ [][NextUndoAny]_vars

\* A resolved handle: flashrom_pci_init selects device 1 by its address, the
\* caller maps, unmaps, enables and disables it, other consumers of the device
\* rewrite its enable file, and the registry is drained.
InitHandle == InitWith({1}, {0}, {"0", "1"}, {64})

HandleMatches == <<Entry(1, 1, "OK")>>
HandleParam == Slot(0, 31, 2)

NextHandle ==
    \/ \E o \in EnableOutcomes :
          FlashromPciInit(HandleMatches, HandleParam, o)
    \/ \E h \in Held, o \in EnableOutcomes : DeviceEnable(h, o)
    \/ \E h \in Held, o \in EnableOutcomes : DeviceDisable(h, o)
    \/ \E h \in Held, bar \in -1 .. 6, o \in MapOutcomes : MmioMap(h, bar, o)
    \/ \E h \in Held : MmioUnmap(h)
    \/ \E d \in Dev, v \in FileContents : OtherEnableWrite(d, v)
    \/ \E o \in EnableOutcomes : ShutdownStep(o)

SpecHandle == InitHandle /\ [][NextHandle]_vars

\* The accessors: a resolved handle on device 1, mapped and unmapped by the
\* caller (BAR 0 of 8 bytes, BAR 2 of 4 bytes, BAR 3 of size 0, mmap failing or
\* not), and every accessor at addresses inside, at the end of and beyond the
\* regions, aligned and not.
InitMmio == InitWith({1}, {0}, {"1"}, {64})

MmioBars == { 0, 1, 2, 3 }
MmioAddrs == { 0, 3, 4, 8 }
ByteValues == { <<255>>, <<90>> }
ByteMasks == { <<15>>, <<240>> }
LongValues == { <<255, 255, 255, 255>>, <<18, 52, 86, 120>> }
LongMasks == { <<15, 240, 0, 255>>, <<255, 0, 170, 1>> }

NextMmio ==
    \/ \E o \in {"ok"} : FlashromPciInit(HandleMatches, HandleParam, o)
    \/ \E h \in Held, bar \in MmioBars, o \in {"ok", "mmap"} : MmioMap(h, bar, o)
    \/ \E h \in Held : MmioUnmap(h)
    \/ \E h \in Held, a \in MmioAddrs : MmioByteRead(h, a)
    \/ \E h \in Held, a \in MmioAddrs, v \in ByteValues : MmioByteWrite(h, a, v)
    \/ \E h \in Held, a \in MmioAddrs, v \in ByteValues, m \in ByteMasks :
          MmioByteMask(h, a, v, m)
    \/ \E h \in Held, a \in MmioAddrs : MmioLongRead(h, a)
    \/ \E h \in Held, a \in MmioAddrs, v \in LongValues : MmioLongWrite(h, a, v)
    \/ \E h \in Held, a \in MmioAddrs, v \in LongValues, m \in LongMasks :
          MmioLongMask(h, a, v, m)

SpecMmio == InitMmio /\ [][NextMmio]_vars

\* pcidev_readbar as a function of the configuration space: every header type,
\* the register pair <<lo, hi>> placed at one slot of the header, and every slot
\* asked for, on a 32-bit and on a 64-bit build.
HeaderRegs == {PCI_COMMAND, PCI_COMMAND + 1, PCI_HEADER_TYPE} \cup (PCI_BASE_ADDRESS_0 .. 63)

HeaderImage(headertype, command, slot, lo, hi) ==
    [r \in HeaderRegs |->
        CASE r = PCI_HEADER_TYPE -> headertype
          [] r = PCI_COMMAND -> command
          [] r \in slot .. (slot + 3) -> lo[r - slot + 1]
          [] r \in (slot + 4) .. (slot + 7) -> hi[r - slot - 3]
          [] OTHER -> 0]

\* normal, bridge, CardBus, an undefined type, bridge with the multi-function bit
HeaderTypes == { 0, 1, 2, 5, 129 }
ReadbarBars ==
    { PCI_BASE_ADDRESS_0, PCI_BASE_ADDRESS_1, PCI_BASE_ADDRESS_2, PCI_BASE_ADDRESS_5,
      PCI_ROM_ADDRESS, PCI_ROM_ADDRESS1 }
\* 0xF0000004 and 0xF010000C (64-bit memory), 0xF0000000 (32-bit memory),
\* 0x00001001 (I/O), 0xE0000006 (memory, reserved type), all ones, zero
LowValues ==
    { <<4, 0, 0, 240>>, <<12, 0, 16, 240>>, <<0, 0, 0, 240>>, <<1, 16, 0, 0>>,
      <<6, 0, 0, 224>>, <<255, 255, 255, 255>>, <<0, 0, 0, 0>> }
HighValues == { <<0, 0, 0, 0>>, <<1, 0, 0, 0>>, <<0, 0, 0, 128>> }

InitReadbar ==
    /\ pacc = 0
    /\ uintptr_bits \in {32, 64}
    /\ pci_dev = [d \in Dev |-> PciDev(d, DevKinds[1])]
    /\ \E headertype \in HeaderTypes, command \in {0, 2}, slot \in ReadbarBars,
          lo \in LowValues, hi \in HighValues :
          cfg = [d \in Dev |-> HeaderImage(headertype, command, slot, lo, hi)]
    /\ hist = [ctx_allocs |-> 0, ctx_cleanups |-> 0, calls |-> 0, maps |-> 0,
               undo_trace |-> <<>>, writes |-> <<>>, en_wrote |-> <<>>,
               kind |-> [d \in Dev |-> 1]]
    /\ resource = [d \in Dev |-> ResourceImage]
    /\ enable_file = [d \in Dev |-> "0"]
    /\ shutdown_fn = <<>>
    /\ undo_data = <<>>
    /\ device = <<>>
    /\ vma = {}
    /\ phase = "run"
    /\ last = NoCall

NextReadbar == \E bar \in ReadbarBars : PcidevReadbar(1, bar)

SpecReadbar == InitReadbar /\ [][NextReadbar]_vars

---------------------------------------------------------------------------
\* Claims about resolution and the enumeration context (SpecResolve).

InitOps == { "pci_init_common", "pcidev_init", "flashrom_pci_init" }

\* the devices that match the location filter and are on the whitelist
Survivors(devs, param) ==
    { d \in Dev :
        /\ pci_filter_match(param, pci_dev[d])
        /\ \E i \in 1 .. Len(devs) :
              /\ devs[i].vendor_id = pci_dev[d].vendor_id
              /\ devs[i].device_id = pci_dev[d].device_id }

\* C1: once the context is set up and the location filter parsed, pcidev_init and
\* flashrom_pci_init (when enabling the device does not fail) return a device if
\* and only if exactly one device matches the location filter and the whitelist,
\* and then they return that device.
C1_ExactlyOneSurvivor ==
    LET S == Survivors(last.devs, last.param)
        ready == last.init_ret = 0 /\ ~last.param.err
    IN  /\ (last.op = "pcidev_init" /\ ready) =>
              /\ (last.ret # 0) <=> (Cardinality(S) = 1)
              /\ (last.ret # 0) => (last.ret \in S)
        /\ (last.op = "flashrom_pci_init" /\ ready) =>
              /\ (last.h # 0) <=> (Cardinality(S) = 1)
              /\ (last.ret # 0) => (device[last.ret].pci \in S)

\* C4: an initialisation called while pacc is not NULL fails, leaves pacc and the
\* context it names as they are, and adds nothing to the shutdown registry.
C4_SecondInitFails ==
    [][ (last'.op \in InitOps /\ pacc # 0) =>
            /\ last'.init_ret # 0
            /\ last'.ret = (IF last'.op = "pci_init_common" THEN 1 ELSE 0)
            /\ pacc' = pacc
            /\ shutdown_fn' = shutdown_fn
            /\ hist'.ctx_allocs = hist.ctx_allocs
            /\ hist'.ctx_cleanups = hist.ctx_cleanups
            /\ device' = device ]_vars

\* C4 witness: pcidev_init was called on a live context, which is still the one set
C4_Witness ==
    /\ last.op = "pcidev_init"
    /\ last.pre_pacc # 0
    /\ last.init_ret # 0
    /\ pacc = last.pre_pacc

\* C5: while pacc is not NULL a teardown entry for the context is in the shutdown
\* registry, whether pci_init_common returned success or failure; once the
\* registry is drained every context allocated was cleaned up once and pacc is NULL.
C5_ContextReleasedOnce ==
    /\ hist.ctx_cleanups <= hist.ctx_allocs
    /\ (pacc # 0) =>
          Cardinality({ i \in 1 .. Len(shutdown_fn) : shutdown_fn[i].func = "pcidev_shutdown" }) = 1
    /\ (phase = "done") => (pacc = 0 /\ hist.ctx_cleanups = hist.ctx_allocs)

LiveHandles == { h \in 1 .. Len(device) : device[h].alive }

\* C6: at most one handle made by flashrom_pci_init is live, and a flashrom_pci_init
\* called while the context is live fails in pci_init_common and allocates none.
C6_AtMostOneHandle ==
    /\ [](Cardinality(LiveHandles) <= 1)
    /\ [][ (last'.op = "flashrom_pci_init" /\ pacc # 0) =>
              (last'.init_ret # 0 /\ last'.ret = 0 /\ device' = device) ]_vars

\* C6 witness: flashrom_pci_init was called again while the first handle is live
C6_Witness ==
    /\ last.op = "flashrom_pci_init"
    /\ last.pre_pacc # 0
    /\ last.ret = 0
    /\ Cardinality(LiveHandles) = 1

---------------------------------------------------------------------------
\* Claims about the undo log (SpecUndo).

\* C2: every rpci_write_* made on a live context puts an undo entry holding the
\* register's value, read at the width of the write, on the shutdown registry
\* before it writes; once the registry is drained the configuration space is
\* what it was before the first write.
C2_WritesReversible ==
    /\ (last.op = "rpci_write" /\ last.pre_pacc # 0) =>
          /\ Len(shutdown_fn) = last.pre_fns + 1
          /\ shutdown_fn[Len(shutdown_fn)] = [func |-> "undo_pci_write", data |-> Len(undo_data)]
          /\ undo_data[Len(undo_data)] =
                [dev |-> last.dev, reg |-> last.reg, type |-> last.type,
                 data |-> last.old, freed |-> FALSE]
    /\ (phase = "done") => (cfg = Cfg0)

\* C3: the undo entries are invoked in the reverse of the order of the writes
\* that registered them, and each one that writes puts the value saved by its
\* write back into the same register of the same device at the same width.
C3_UndoReverseOrder ==
    LET t == hist.undo_trace
    IN  /\ \A i, j \in 1 .. Len(t) : (i < j) => (t[i].n > t[j].n)
        /\ \A i \in 1 .. Len(t) :
              LET w == hist.writes[t[i].n]
              IN  (t[i].ret = 0) =>
                     /\ t[i].written = w.old
                     /\ Len(t[i].written) = Widths[w.type]
                     /\ t[i].after = w.old

\* C3 witness: two undo entries of different widths have been replayed
C3_Witness ==
    LET t == hist.undo_trace
    IN  /\ Len(t) >= 2
        /\ t[1].ret = 0 /\ t[2].ret = 0
        /\ Len(t[1].written) # Len(t[2].written)
        /\ hist.writes[t[1].n].dev = hist.writes[t[2].n].dev

---------------------------------------------------------------------------
\* Claims about a resolved handle (SpecHandle).

\* the call recorded in l ran flashrom_pci_device_enable to success on a handle
\* that was not marked enabled, and found the enable file holding c
EnabledFrom(l, c) ==
    /\ \/ l.op = "flashrom_pci_device_enable" /\ l.ret = 0 /\ ~l.pre_dev.enabled
       \/ l.op = "flashrom_pci_init" /\ l.ret # 0
    /\ l.pre_file = c

\* C7: an enable that reads '0' writes '1' and marks the handle enabled, and the
\* disable that follows writes '0' and marks it not enabled; an enable that
\* reads '1' writes nothing and the disable that follows writes nothing, the
\* file staying '1'; enable on an enabled handle and disable on a handle that
\* is not enabled return success without any file access.
C7_EnableDisableRoundTrip ==
    /\ [](EnabledFrom(last, "0") =>
             /\ last.io = <<"open", "read", "write">>
             /\ enable_file[last.dev] = "1"
             /\ device[last.h].enabled)
    /\ [](EnabledFrom(last, "1") =>
             /\ last.io = <<"open", "read">>
             /\ enable_file[last.dev] = "1"
             /\ device[last.h].enabled)
    /\ []((last.op = "flashrom_pci_device_enable" /\ last.pre_dev.enabled) =>
             (last.ret = 0 /\ last.io = <<>>))
    /\ []((last.op = "flashrom_pci_device_disable" /\ ~last.pre_dev.enabled) =>
             (last.ret = 0 /\ last.io = <<>>))
    /\ [][ (/\ EnabledFrom(last, "0")
            /\ last'.op = "flashrom_pci_device_disable" /\ last'.h = last.h
            /\ last'.ret = 0) =>
               /\ last'.io = <<"open", "read", "write">>
               /\ enable_file'[last.dev] = "0"
               /\ ~device'[last.h].enabled ]_vars
    /\ [][ (/\ EnabledFrom(last, "1")
            /\ last'.op = "flashrom_pci_device_disable" /\ last'.h = last.h) =>
               /\ last'.ret = 0
               /\ last'.io = <<>>
               /\ enable_file'[last.dev] = "1" ]_vars

\* C8: flashrom_pci_device_disable, called directly or by the teardown of the
\* handle, writes '0' to the enable file only if the enable call that last
\* marked the handle enabled had found the file at '0' and written '1'.
C8_NeverDisablesForeignEnable ==
    (/\ last.op \in {"flashrom_pci_device_disable", "flashrom_pci_device_shutdown"}
     /\ last.io = <<"open", "read", "write">>)
        => hist.en_wrote[last.h]

Mapped(dv) == dv.mmio # 0 /\ dv.mmio # MAP_FAILED

\* C9: a successful map of an unmapped handle (mmio NULL) records a live mapping
\* of the declared size of the BAR; map on a mapped handle returns success and
\* changes nothing when the declared size equals mmio_size, and returns EALREADY
\* and changes nothing when it differs; unmap clears mmio and mmio_size and
\* releases the mapping, and on an unmapped handle it changes nothing.
C9_MapUnmapRoundTrip ==
    [][ LET h == last'.h
            bar == last'.bar
            size == pci_dev[device[h].pci].size[bar + 1]
        IN  /\ (last'.op = "flashrom_pci_mmio_map" /\ device[h].mmio = 0 /\ last'.ret = 0) =>
                  /\ Mapped(device'[h])
                  /\ device'[h].mmio_size = size
                  /\ vma' = vma \cup {[addr |-> device'[h].mmio, len |-> size,
                                       dev |-> device[h].pci, bar |-> bar]}
                  /\ vma' # vma
            /\ (last'.op = "flashrom_pci_mmio_map" /\ Mapped(device[h]) /\ bar \in 0 .. 5) =>
                  /\ last'.ret = (IF size = device[h].mmio_size THEN 0 ELSE EALREADY)
                  /\ last'.io = <<>>
                  /\ device' = device
                  /\ vma' = vma
            /\ (last'.op = "flashrom_pci_mmio_unmap") =>
                  /\ device'[h].mmio = 0
                  /\ device'[h].mmio_size = 0
                  /\ \A m \in vma' : m.addr # device[h].mmio
                  /\ (device[h].mmio = 0) => (device' = device /\ vma' = vma /\ ~last'.munmap)
      ]_vars

\* C9 witness: map was called on a mapped handle for a BAR of another size, and
\* the first mapping is still the one recorded
C9_Witness ==
    /\ last.op = "flashrom_pci_mmio_map"
    /\ last.ret = EALREADY
    /\ Mapped(last.pre_dev)
    /\ device[last.h] = last.pre_dev
    /\ \E m \in vma : m.addr = device[last.h].mmio /\ m.len = device[last.h].mmio_size

\* C10: a map of an unmapped handle that returns an error leaves mmio NULL and
\* mmio_size 0, and a BAR index outside 0..5 is rejected before any file is opened.
C10_FailedMapLeavesHandle ==
    (last.op = "flashrom_pci_mmio_map" /\ last.pre_dev.mmio = 0 /\ last.ret # 0) =>
        /\ device[last.h].mmio = 0
        /\ device[last.h].mmio_size = 0
        /\ (last.bar \notin 0 .. 5) => (last.io = <<>>)

---------------------------------------------------------------------------
\* C11: a flashrom_pci_device_enable or flashrom_pci_device_disable call that
\* aborts (open, read or write of the enable file fails, or the flag read is
\* neither '0' nor '1') leaves the enabled and was_disabled flags of the handle
\* as they were before the call; the enable call flashrom_pci_init makes on the
\* handle it has just allocated (both flags false) is included.
C11_FailedEnableKeepsFlags ==
    /\ (/\ last.op \in {"flashrom_pci_device_enable", "flashrom_pci_device_disable"}
        /\ last.ret # 0) =>
           /\ device[last.h].enabled = last.pre_dev.enabled
           /\ device[last.h].was_disabled = last.pre_dev.was_disabled
    /\ (last.op = "flashrom_pci_init" /\ last.h # 0 /\ last.ret = 0) =>
           /\ ~device[last.h].enabled
           /\ ~device[last.h].was_disabled

---------------------------------------------------------------------------
\* Claims about the accessors of mmio (SpecMmio).

ByteAccessors ==
    { "flashrom_pci_mmio_byte_read", "flashrom_pci_mmio_byte_write",
      "flashrom_pci_mmio_byte_mask" }
LongAccessors ==
    { "flashrom_pci_mmio_long_read", "flashrom_pci_mmio_long_write",
      "flashrom_pci_mmio_long_mask" }

\* C12: an accessor called with address >= mmio_size, or a 32-bit accessor
\* called with an address that is not a multiple of 4, makes no access to the
\* region, leaves every resource as it was and sets errno to EFAULT; so does
\* every accessor on a handle whose mmio_size is 0.
C12_AccessBoundsChecked ==
    (/\ last.op \in ByteAccessors \cup LongAccessors
     /\ \/ last.address >= last.pre_dev.mmio_size
        \/ last.op \in LongAccessors /\ last.address % 4 # 0) =>
        /\ last.trace = <<>>
        /\ ~last.fault
        /\ resource = last.pre_res
        /\ last.errno = EFAULT

\* a 32-bit write at a misaligned address inside a mapped region of 8 bytes
C12_Witness ==
    /\ last.op = "flashrom_pci_mmio_long_write"
    /\ last.pre_dev.mmio_size = 8
    /\ last.address = 3
    /\ last.errno = EFAULT

Bit(x, k) == (x \div (2 ^ k)) % 2

\* byte e holds the bits of value where mask is set and those of old elsewhere
Masked(e, old, value, mask) ==
    \A k \in 0 .. 7 : Bit(e, k) = IF Bit(mask, k) = 1 THEN Bit(value, k) ELSE Bit(old, k)

\* C13: a masked update at an address inside the region (a multiple of 4 for
\* the 32-bit variant) reads the addressed location once, then writes it once,
\* leaving it at (old AND NOT mask) OR (value AND mask) and every other
\* location of every resource as it was.
C13_MaskedUpdate ==
    LET w == IF last.op = "flashrom_pci_mmio_byte_mask" THEN 1 ELSE 4
        a == last.address
    IN  (/\ last.op \in {"flashrom_pci_mmio_byte_mask", "flashrom_pci_mmio_long_mask"}
         /\ a < last.pre_dev.mmio_size
         /\ w = 4 => a % 4 = 0) =>
            /\ ~last.fault
            /\ last.trace = << <<"read", a, w>>, <<"write", a, w>> >>
            /\ \E m \in vma :
                  /\ m.addr = last.pre_dev.mmio
                  /\ \A d \in Dev, b \in 1 .. 6 : \A j \in 1 .. BarSizes[b] :
                        IF d = m.dev /\ b = m.bar + 1 /\ j > a /\ j <= a + w
                        THEN Masked(resource[d][b][j], last.pre_res[d][b][j],
                                    last.data[j - a], last.mask[j - a])
                        ELSE resource[d][b][j] = last.pre_res[d][b][j]

\* old 0xA0, value 0xFF, mask 0x0F: the byte holds 0xAF
C13_Witness ==
    /\ last.op = "flashrom_pci_mmio_byte_mask"
    /\ last.address = 0
    /\ last.pre_dev.mmio_size = 8
    /\ last.pre_res[1][1][1] = 160
    /\ last.data = <<255>>
    /\ last.mask = <<15>>
    /\ resource[1][1][1] = 175

---------------------------------------------------------------------------
\* Claims about the teardown of a handle (SpecHandle).

---------------------------------------------------------------------------
\* Claims about pcidev_readbar (SpecReadbar).

\* the register pair the last pcidev_readbar call decoded
ReadLo == pci_read_long(cfg[last.dev], last.bar)
ReadHi == pci_read_long(cfg[last.dev], last.bar + 4)
ReadHeader == cfg[last.dev][PCI_HEADER_TYPE] % 128

\* the slot asked for is a base address register of the header, holding a
\* memory BAR of type bits[2:1] = 10
Is64BitMemBar ==
    /\ \/ ReadHeader = 0 /\ last.bar \in {16, 20, 24, 28, 32, 36}
       \/ ReadHeader = 1 /\ last.bar \in {16, 20}
    /\ ReadLo[1] % 2 = 0
    /\ (ReadLo[1] \div 2) % 4 = 2

\* C15: for a 64-bit memory BAR with a non-zero upper register pcidev_readbar
\* returns (upper << 32) | lower with bits 3..0 cleared on a 64-bit build and 0
\* on a 32-bit build; with a zero upper register it returns the lower register
\* with bits 3..0 cleared on both.
C15_NoSilentTruncation ==
    (last.op = "pcidev_readbar" /\ Is64BitMemBar) =>
        LET lower == <<ReadLo[1] - (ReadLo[1] % 16), ReadLo[2], ReadLo[3], ReadLo[4]>>
        IN  last.data = IF ReadHi = <<0, 0, 0, 0>> THEN lower \o <<0, 0, 0, 0>>
                        ELSE IF uintptr_bits = 64 THEN lower \o ReadHi
                        ELSE <<0, 0, 0, 0, 0, 0, 0, 0>>

\* BAR 0xF010000C with upper register 0x80000000 on a 64-bit build
C15_Witness ==
    /\ last.op = "pcidev_readbar"
    /\ Is64BitMemBar
    /\ uintptr_bits = 64
    /\ ReadLo = <<12, 0, 16, 240>>
    /\ ReadHi = <<0, 0, 0, 128>>
    /\ last.data = <<0, 0, 16, 240, 0, 0, 0, 128>>

\* the header type and the slot asked for do not name a base address or
\* expansion ROM register
IsUnknownSlot ==
    \/ ReadHeader \notin {0, 1}
    \/ ReadHeader = 0 /\ last.bar \notin {16, 20, 24, 28, 32, 36, 48}
    \/ ReadHeader = 1 /\ last.bar \notin {16, 20, 56}

\* C16: for a slot that is neither a base address nor an expansion ROM
\* register of the header, pcidev_readbar returns address 0 whatever the
\* register holds.
C16_UnknownBarReadsZero ==
    (last.op = "pcidev_readbar" /\ IsUnknownSlot) =>
        last.data = <<0, 0, 0, 0, 0, 0, 0, 0>>

---------------------------------------------------------------------------
\* Claims about candidates of pcidev_init (SpecResolve).

\* the survivors whose BAR pcidev_readbar decodes to a non-zero address
Candidates(devs, param, bar) ==
    { d \in Survivors(devs, param) :
        pcidev_readbar(cfg[d], bar, uintptr_bits) # <<0, 0, 0, 0, 0, 0, 0, 0>> }

---------------------------------------------------------------------------
\* Claims about the life of undo entries (SpecUndoAny).

\* C18: every undo entry rpci_write_* allocated is freed by the undo_pci_write
\* call the drain makes for it, whether that call writes the saved value back
\* or skips the write; once the drain is over every entry has been invoked
\* once and is freed.
C18_UndoEntryFreedOnce ==
    /\ last.op = "undo_pci_write" => undo_data[last.h].freed
    /\ phase = "done" =>
          \A n \in 1 .. Len(undo_data) :
              /\ undo_data[n].freed
              /\ Cardinality({ i \in 1 .. Len(hist.undo_trace) : hist.undo_trace[i].n = n }) = 1

---------------------------------------------------------------------------
\* Claims about a handle flashrom_pci_init did not return (SpecHandle).

\* the entries of the shutdown registry that tear handle h down
TeardownEntries(h) ==
    { i \in 1 .. Len(shutdown_fn) :
        shutdown_fn[i] = [func |-> "flashrom_pci_device_shutdown", data |-> h] }

\* C19: when flashrom_pci_device_enable fails inside flashrom_pci_init the call
\* returns NULL and leaves the allocated handle and its teardown entry in
\* place; the drain releases that handle once, while the enumeration context
\* is still live, without any access to the enable file.
C19_FailedInitNotUnwound ==
    /\ (last.op = "flashrom_pci_init" /\ last.h # 0 /\ last.ret = 0) =>
          /\ device[last.h].alive
          /\ ~device[last.h].returned
          /\ TeardownEntries(last.h) = {Len(shutdown_fn)}
    /\ \A h \in 1 .. Len(device) :
          ~device[h].returned =>
              /\ device[h].alive => (pacc # 0 /\ Cardinality(TeardownEntries(h)) = 1)
              /\ ~device[h].alive => TeardownEntries(h) = {}
              /\ phase = "done" => ~device[h].alive
    /\ (last.op = "flashrom_pci_device_shutdown" /\ ~last.pre_dev.returned) =>
          /\ last.ret = 0
          /\ ~device[last.h].alive
          /\ pacc # 0
          /\ last.io = <<>>
          /\ enable_file[last.dev] = last.pre_file

\* the enable file read '0' and the write of '1' failed; the drain has
\* released the handle and the file is still at '0'
C19_Witness ==
    /\ last.op = "flashrom_pci_device_shutdown"
    /\ ~last.pre_dev.returned
    /\ last.pre_dev.was_disabled
    /\ ~device[last.h].alive
    /\ pacc # 0
    /\ enable_file[last.dev] = "0"

---------------------------------------------------------------------------
\* Claims about the mapping behind a handle (SpecMmio).

MmioAccessors == ByteAccessors \cup LongAccessors

\* C20: on every live handle, under any sequence of flashrom_pci_mmio_map
\* (successful or failed), flashrom_pci_mmio_unmap and accessor calls, a
\* non-zero mmio_size means mmio points to a live mapping of exactly mmio_size
\* bytes; an accessor that passes its bounds check never dereferences NULL or
\* MAP_FAILED.
C20_SizeImpliesLiveMapping ==
    /\ \A h \in 1 .. Len(device) :
          (device[h].alive /\ device[h].mmio_size > 0) =>
              /\ device[h].mmio \notin {0, MAP_FAILED}
              /\ \E m \in vma : m.addr = device[h].mmio /\ m.len = device[h].mmio_size
    /\ last.op \in MmioAccessors =>
          /\ ~last.fault
          /\ last.address < last.pre_dev.mmio_size =>
                last.pre_dev.mmio \notin {0, MAP_FAILED}

\* an accessor passed its bounds check and reached the mapping
C20_Witness ==
    /\ last.op \in MmioAccessors
    /\ last.pre_dev.mmio_size > 0
    /\ last.address < last.pre_dev.mmio_size
    /\ last.trace # <<>>

\* C21: when flashrom_pci_mmio_map(device, bar) returns 0 the region recorded
\* in the handle is the resource of that bar, also when the handle was already
\* mapped through another BAR of the same declared size.
C21_MapRecordsRequestedBar ==
    (last.op = "flashrom_pci_mmio_map" /\ last.ret = 0) =>
        \E m \in vma :
            /\ m.addr = device[last.h].mmio
            /\ m.len = device[last.h].mmio_size
            /\ m.dev = device[last.h].pci
            /\ m.bar = last.bar

====
